---------------------------- MODULE Spec2Model ----------------------------
(***************************************************************************)
(* Model of the syntax layer of fluxo-dev/kit: the expression tree (Exp),  *)
(* De Bruijn indexing (Exp::index), the checked increments (Idx::inc,      *)
(* Unv::inc), the lexer (Lexer), the parser (ExpParser) and the canonical  *)
(* printer (Core::encode).                                                 *)
(*                                                                         *)
(* A String is a sequence of characters, each character a one-glyph        *)
(* string; a Sym holds such a sequence.  A Result is Ok(v) or Err(e).      *)
(***************************************************************************)
EXTENDS Integers, Sequences, FiniteSets

VARIABLES
    pc,     \* position of the driving program
    stack,  \* expressions under construction (operands of the constructors)
    text,   \* the String handed to Core::decode
    dec,    \* the Result of Core::decode
    enc,    \* the String returned by Core::encode
    call    \* the last direct call of Exp::index or of an inc: inputs and result

vars == <<pc, stack, text, dec, enc, call>>

---------------------------------------------------------------------------
(* Bounds of the model *)

\* Width, in bits, of the unsigned integer that stands for u64.
IdxBits == 2
\* Most nodes (leaves and inner nodes) of the expressions on the stack.
MaxNodes == 7
\* Most expressions on the stack.
MaxStack == 4
\* Highest level of the universes the driving program builds expressions from.
MaxLevel == 1

---------------------------------------------------------------------------
(* Results *)

Ok(v) == [ok |-> TRUE, val |-> v]
Err(e) == [ok |-> FALSE, err |-> e]
None == [none |-> TRUE]

\* u64::MAX at the model's width.
U64_MAX == 2^IdxBits - 1

\* SystemErr
MaxLimitIdx(n) == [tag |-> "MaxLimitIdx", lim |-> n]
MaxLimitUnv(n) == [tag |-> "MaxLimitUnv", lim |-> n]

---------------------------------------------------------------------------
(* src/ast/var.rs *)

\* Sym::new
SymNew(val) == [val |-> val]

\* Idx::new
IdxNew(sym) == [val |-> 0, sym |-> sym]

\* A checked_add(1) that wraps around
CheckedAdd1Wrapping(n) == [none |-> FALSE, some |-> (n + 1) % (U64_MAX + 1)]

\* u64::checked_add(1): None on overflow
CheckedAdd1(n) == IF n + 1 > U64_MAX THEN None ELSE [none |-> FALSE, some |-> n + 1]

\* An Idx::inc that returns the index it was given
IdxIncSame(idx) == Ok(idx)

\* Idx::inc
IdxInc(idx) ==
    LET v == CheckedAdd1(idx.val)
    IN  IF v.none THEN Err(MaxLimitIdx(idx.val))
        ELSE Ok([val |-> v.some, sym |-> idx.sym])

\* Var::Sym, Var::Idx
VarSym(sym) == [tag |-> "Sym", sym |-> sym]
VarIdx(idx) == [tag |-> "Idx", idx |-> idx]

---------------------------------------------------------------------------
(* src/ast/unv.rs *)

\* Unv { level }
Unv(level) == [level |-> level]

\* Unv::new
UnvNew == Unv(0)

\* A Display for Unv that writes one "'" per level after the glyph
UnvDisplayLevel(unv) == <<"□">> \o [i \in 1..unv.level |-> "'"]

\* impl Display for Unv
UnvDisplay(unv) == <<"□">>

\* Unv::inc
UnvInc(unv) ==
    LET v == CheckedAdd1(unv.level)
    IN  IF v.none THEN Err(MaxLimitUnv(unv.level))
        ELSE Ok([level |-> v.some])

---------------------------------------------------------------------------
(* src/ast/exp.rs *)

\* The variants of Exp
ExpVar(var) == [tag |-> "Var", var |-> var]
ExpApp(app) == [tag |-> "App", fst |-> app.fst, snd |-> app.snd]
ExpUnv(unv) == [tag |-> "Unv", unv |-> unv]
ExpBinder(tag, b) == [tag |-> tag, sym |-> b.sym, typ |-> b.typ, exp |-> b.exp]

BinderTags == {"Abs", "Prd", "Sum"}
IsBinder(e) == e.tag \in BinderTags

\* A Var arm that shifts the variables that are bound already
indexVarShift(var, sym, idx) ==
    IF var.tag = "Sym"
    THEN IF var.sym = sym THEN VarIdx(idx) ELSE var
    ELSE VarIdx([var.idx EXCEPT !.val = (@ + 1) % (U64_MAX + 1)])

\* A Var arm that converts every symbol, whatever its name
indexVarAll(var, sym, idx) == IF var.tag = "Sym" THEN VarIdx(idx) ELSE var

\* The Var arm of Exp::index: the variable as the arm leaves it
indexVar(var, sym, idx) ==
    IF var.tag = "Sym"
    THEN IF var.sym = sym THEN VarIdx(idx) ELSE var
    ELSE var

\* Exp::index.  The expression is mutated in place: the value is the Result
\* together with the expression as the call leaves it, also when it fails.
RECURSIVE index(_, _, _)
index(exp, sym, idx) ==
    CASE exp.tag = "Var" ->
            [res |-> Ok(<<>>), exp |-> ExpVar(indexVar(exp.var, sym, idx))]
      [] exp.tag \in BinderTags ->
            IF exp.sym # sym
            THEN LET i == IdxInc(idx)
                 IN  IF ~i.ok THEN [res |-> Err(i.err), exp |-> exp]
                     ELSE LET r == index(exp.exp, sym, i.val)
                          IN  [res |-> r.res, exp |-> [exp EXCEPT !.exp = r.exp]]
            ELSE [res |-> Ok(<<>>), exp |-> exp]
      [] exp.tag = "App" ->
            LET r1 == index(exp.fst, sym, idx)
            IN  IF ~r1.res.ok
                THEN [res |-> r1.res, exp |-> [exp EXCEPT !.fst = r1.exp]]
                ELSE LET r2 == index(exp.snd, sym, idx)
                     IN  [res |-> r2.res,
                          exp |-> [exp EXCEPT !.fst = r1.exp, !.snd = r2.exp]]
      [] exp.tag = "Unv" -> [res |-> Ok(<<>>), exp |-> exp]

---------------------------------------------------------------------------
(* src/ast/app.rs, abs.rs, prd.rs, sum.rs *)

\* An App::new that takes its operands the other way round
AppNewSwapped(fst, snd) == [fst |-> snd, snd |-> fst]

\* App::new
AppNew(fst, snd) == [fst |-> fst, snd |-> snd]

\* The body of Abs::new, Prd::new and Sum::new, which are the same text.
BinderNew(sym, typ, exp) ==
    LET r == index(exp, sym, IdxNew(sym))
    IN  IF ~r.res.ok THEN Err(r.res.err)
        ELSE Ok([sym |-> sym, typ |-> typ, exp |-> r.exp])

\* Abs::new
AbsNew(sym, typ, exp) == BinderNew(sym, typ, exp)
\* Prd::new
PrdNew(sym, typ, exp) == BinderNew(sym, typ, exp)
\* Sum::new
SumNew(sym, typ, exp) == BinderNew(sym, typ, exp)

\* Number of nodes of an expression
RECURSIVE Size(_)
Size(e) ==
    CASE e.tag \in {"Var", "Unv"} -> 1
      [] e.tag = "App" -> 1 + Size(e.fst) + Size(e.snd)
      [] OTHER -> 1 + Size(e.typ) + Size(e.exp)

---------------------------------------------------------------------------
(* Strings *)

Lower == {"a", "b", "c", "d", "e", "f", "g", "h", "i", "j", "k", "l", "m",
          "n", "o", "p", "q", "r", "s", "t", "u", "v", "w", "x", "y", "z"}
Digit == {"0", "1", "2", "3", "4", "5", "6", "7", "8", "9"}
Blank == {" ", "\t", "\n", "\f"}

\* Length in bytes of a character's UTF-8 encoding (str offsets are byte offsets).
Utf8Len(c) ==
    CASE c \in {"λ", "Π", "Σ", "α"} -> 2
      [] c = "□" -> 3
      [] OTHER -> 1

\* u64::to_string
RECURSIVE to_string(_)
to_string(n) ==
    LET d == <<"0", "1", "2", "3", "4", "5", "6", "7", "8", "9">>[(n % 10) + 1]
    IN  IF n < 10 THEN <<d>> ELSE to_string(n \div 10) \o <<d>>

---------------------------------------------------------------------------
(* src/enc/core/par.rs: the printer *)

\* Core::new
CoreNew == [ltree |-> FALSE, rtree |-> FALSE, show_indices |-> FALSE]

\* Core::reset
reset(self) == [self EXCEPT !.ltree = FALSE, !.rtree = FALSE]

\* Core::with_show_indices
with_show_indices(show_indices) == [CoreNew EXCEPT !.show_indices = show_indices]

\* Core::fmt_parens, on the string that func() returns
fmt_parens(parens, str) == IF parens THEN <<"(">> \o str \o <<")">> ELSE str

\* Binder::prefix
prefix(tag) ==
    CASE tag = "Abs" -> <<"λ">>
      [] tag = "Prd" -> <<"Π">>
      [] tag = "Sum" -> <<"Σ">>

\* The codec fmt_app encodes app.fst with
ltree_codec(self) == [self EXCEPT !.ltree = ~self.rtree]
\* The codec fmt_app encodes app.snd with
rtree_codec(self) == [self EXCEPT !.rtree = ~self.rtree]

\* Core::encode, with Core::fmt_binder and Core::fmt_app in its arms
RECURSIVE encode(_, _)
encode(self, exp) ==
    CASE exp.tag = "Var" ->
            IF exp.var.tag = "Sym" THEN exp.var.sym.val
            ELSE IF self.show_indices THEN to_string(exp.var.idx.val)
                 ELSE exp.var.idx.sym.val
      [] exp.tag = "App" ->
            fmt_parens(self.rtree,
                encode(ltree_codec(self), exp.fst) \o <<" ">>
                    \o encode(rtree_codec(self), exp.snd))
      [] exp.tag \in BinderTags ->
            fmt_parens(self.ltree,
                prefix(exp.tag) \o exp.sym.val \o <<" ", ":", " ">>
                    \o encode(reset(self), exp.typ) \o <<" ", ".", " ">>
                    \o encode(reset(self), exp.exp))
      [] exp.tag = "Unv" -> UnvDisplay(exp.unv)

---------------------------------------------------------------------------
(* src/enc/core/lex.rs *)

\* DecodeErr
InvalidToken(sloc) == [tag |-> "InvalidToken", sloc |-> sloc]
EndOfStream(sloc) == [tag |-> "EndOfStream", sloc |-> sloc]
UnexpectedToken(tok, sloc, eloc) ==
    [tag |-> "UnexpectedToken", tok |-> tok, sloc |-> sloc, eloc |-> eloc]
SystemErr(err) == [tag |-> "SystemErr", err |-> err]

\* Tok
Ident(name) == [kind |-> "Ident", name |-> name]
Punct(c) ==
    CASE c = "(" -> [kind |-> "LParen"]
      [] c = ")" -> [kind |-> "RParen"]
      [] c = "." -> [kind |-> "Dot"]
      [] c = ":" -> [kind |-> "Colon"]
      [] c = "λ" -> [kind |-> "Lambda"]
      [] c = "Π" -> [kind |-> "Pi"]
      [] c = "Σ" -> [kind |-> "Sigma"]
      [] c = "□" -> [kind |-> "Box"]
Puncts == {"(", ")", ".", ":", "λ", "Π", "Σ", "□"}

\* Last position of the longest match of [a-z0-9_]* that starts at position i
RECURSIVE IdentEnd(_, _)
IdentEnd(input, i) ==
    IF i <= Len(input) /\ input[i] \in Lower \cup Digit \cup {"_"}
    THEN IdentEnd(input, i + 1) ELSE i - 1

\* A Lexer::next that reports an invalid token at the end of its span
LexItemEnd(res, start, end) ==
    IF res.ok THEN Ok(<<start, res.val, end>>) ELSE Err(InvalidToken(end))

\* Lexer::next on the (res, span) that the token stream yields
LexItem(res, start, end) ==
    IF res.ok THEN Ok(<<start, res.val, end>>) ELSE Err(InvalidToken(start))

\* The items of Lexer::new(input), as Lexer::next yields them from position i
\* (byte offset off): Ok((start, tok, end)) or Err(InvalidToken(start)).  The
\* span of a character that starts no token is the character.
RECURSIVE LexFrom(_, _, _)
LexFrom(input, i, off) ==
    IF i > Len(input) THEN <<>>
    ELSE LET c == input[i]
         IN  CASE c \in Blank -> LexFrom(input, i + 1, off + 1)
               [] c \in Lower ->
                    LET j == IdentEnd(input, i + 1)
                        e == off + (j - i + 1)
                    IN  <<LexItem(Ok(Ident(SubSeq(input, i, j))), off, e)>>
                            \o LexFrom(input, j + 1, e)
               [] c \in Puncts ->
                    <<LexItem(Ok(Punct(c)), off, off + Utf8Len(c))>>
                        \o LexFrom(input, i + 1, off + Utf8Len(c))
               [] OTHER ->
                    <<LexItem(Err(<<>>), off, off + Utf8Len(c))>>
                        \o LexFrom(input, i + 1, off + Utf8Len(c))

Lexer(input) == LexFrom(input, 1, 0)

---------------------------------------------------------------------------
(* The grammar that ExpParser is generated from (spec.md 4.4):             *)
(*     Exp         := Binder | Application                                 *)
(*     Binder      := ('λ'|'Π'|'Σ') Ident ':' Exp '.' Exp                  *)
(*     Application := Atom+, left-associative, a Binder allowed last       *)
(*     Atom        := Ident | '□' | '(' Exp ')'                            *)
(* A parse yields [ok, val, pos]: the expression and the position of the   *)
(* first item it did not consume, or [ok, err].  The lists of expected     *)
(* tokens that the errors carry are left out.                              *)

Parsed(exp, pos) == [ok |-> TRUE, val |-> exp, pos |-> pos]

\* Where the token stream ended: the end of its last token
EofLoc(items) ==
    IF Len(items) > 0 /\ items[Len(items)].ok THEN items[Len(items)].val[3] ELSE 0

\* The error for item p where the grammar cannot go on with it
Unexpected(items, p) ==
    IF p > Len(items) THEN Err(EndOfStream(EofLoc(items)))
    ELSE IF ~items[p].ok THEN Err(items[p].err)
    ELSE Err(UnexpectedToken(items[p].val[2], items[p].val[1], items[p].val[3]))

\* Item p is a token of this kind
IsTok(items, p, kind) ==
    p <= Len(items) /\ items[p].ok /\ items[p].val[2].kind = kind

\* Application's action: the operator applied to one more operand
Apply(acc, atom) == IF acc = None THEN atom ELSE ExpApp(AppNew(acc, atom))

\* Binder's action: the constructor of the prefix
Construct(kind, sym, typ, exp) ==
    CASE kind = "Lambda" -> [tag |-> "Abs", res |-> AbsNew(sym, typ, exp)]
      [] kind = "Pi" -> [tag |-> "Prd", res |-> PrdNew(sym, typ, exp)]
      [] kind = "Sigma" -> [tag |-> "Sum", res |-> SumNew(sym, typ, exp)]

RECURSIVE ParseApplication(_, _, _), ParseBinder(_, _)

\* Exp
ParseExp(items, p) == ParseApplication(items, p, None)

\* Application, with acc the application of the atoms read so far
ParseApplication(items, p, acc) ==
    IF p > Len(items) \/ ~items[p].ok
    THEN IF acc = None \/ p <= Len(items) THEN Unexpected(items, p)
         ELSE Parsed(acc, p)
    ELSE LET tok == items[p].val[2]
         IN  CASE tok.kind = "Ident" ->
                    ParseApplication(items, p + 1,
                        Apply(acc, ExpVar(VarSym(SymNew(tok.name)))))
               [] tok.kind = "Box" ->
                    ParseApplication(items, p + 1, Apply(acc, ExpUnv(UnvNew)))
               [] tok.kind = "LParen" ->
                    LET r == ParseExp(items, p + 1)
                    IN  IF ~r.ok THEN r
                        ELSE IF ~IsTok(items, r.pos, "RParen")
                        THEN Unexpected(items, r.pos)
                        ELSE ParseApplication(items, r.pos + 1, Apply(acc, r.val))
               [] tok.kind \in {"Lambda", "Pi", "Sigma"} ->
                    LET r == ParseBinder(items, p)
                    IN  IF ~r.ok THEN r
                        ELSE ParseApplication(items, r.pos, Apply(acc, r.val))
               [] OTHER ->
                    IF acc = None THEN Unexpected(items, p) ELSE Parsed(acc, p)

\* A binder's body that is the one Atom after the '.'
BinderBodyAtom(items, p) ==
    IF IsTok(items, p, "Ident")
    THEN Parsed(ExpVar(VarSym(SymNew(items[p].val[2].name))), p + 1)
    ELSE IF IsTok(items, p, "Box") THEN Parsed(ExpUnv(UnvNew), p + 1)
    ELSE ParseExp(items, p)

\* The Exp after a binder's '.': the rest of the enclosing expression
BinderBody(items, p) == ParseExp(items, p)

\* Binder, whose prefix is item p
ParseBinder(items, p) ==
    IF ~IsTok(items, p + 1, "Ident") THEN Unexpected(items, p + 1)
    ELSE IF ~IsTok(items, p + 2, "Colon") THEN Unexpected(items, p + 2)
    ELSE LET typ == ParseExp(items, p + 3)
         IN  IF ~typ.ok THEN typ
             ELSE IF ~IsTok(items, typ.pos, "Dot") THEN Unexpected(items, typ.pos)
             ELSE LET exp == BinderBody(items, typ.pos + 1)
                  IN  IF ~exp.ok THEN exp
                      ELSE LET new == Construct(items[p].val[2].kind,
                                         SymNew(items[p + 1].val[2].name),
                                         typ.val, exp.val)
                           IN  IF ~new.res.ok THEN Err(SystemErr(new.res.err))
                               ELSE Parsed(ExpBinder(new.tag, new.res.val), exp.pos)

\* ExpParser::new().parse(lexer), with the ParseError turned into a DecodeErr
ExpParser_parse(items) ==
    LET r == ParseExp(items, 1)
    IN  IF ~r.ok THEN Err(r.err)
        ELSE IF r.pos <= Len(items) THEN Unexpected(items, r.pos)
        ELSE Ok(r.val)

\* Core::decode
decode(self, val) == ExpParser_parse(Lexer(val))

---------------------------------------------------------------------------
(* Inputs *)

\* Names of the variables the driving program builds expressions from
Syms == {SymNew(<<"x">>), SymNew(<<"y">>)}

foo == <<"f", "o", "o">>
bar == <<"b", "a", "r">>
moo == <<"m", "o", "o">>
int == <<"i", "n", "t">>
char == <<"c", "h", "a", "r">>
float == <<"f", "l", "o", "a", "t">>

\* The words of a sequence, one space between two
RECURSIVE Words(_)
Words(ws) ==
    IF Len(ws) = 0 THEN <<>>
    ELSE IF Len(ws) = 1 THEN ws[1]
    ELSE ws[1] \o <<" ">> \o Words(Tail(ws))

\* "<prefix><sym> : <typ> . <exp>"
BinderText(pre, sym, typ, exp) == Words(<<<<pre>> \o sym, <<":">>, typ, <<".">>, exp>>)

\* "foo (bar moo)"
FooBarMoo == Words(<<foo, <<"(">> \o bar, moo \o <<")">>>>)

\* The items of test::test_decode_encode
TestItems == {
    foo,
    Words(<<foo, bar>>),
    FooBarMoo,
    BinderText("λ", bar, float, BinderText("λ", moo, char,
        BinderText("λ", foo, int, FooBarMoo))),
    BinderText("λ", foo, int, FooBarMoo),
    BinderText("λ", bar, char, BinderText("λ", foo, int, FooBarMoo)),
    BinderText("λ", bar, BinderText("Π", <<"f">>, int, <<"f">>),
        BinderText("λ", moo, char, BinderText("λ", foo, int, FooBarMoo))),
    BinderText("λ", foo, BinderText("Π", <<"f">>, int, <<"f">>), FooBarMoo),
    BinderText("λ", bar, BinderText("Π", <<"f">>, char, <<"f">>),
        BinderText("λ", foo, int, FooBarMoo)),
    BinderText("λ", bar, BinderText("Σ", <<"f">>, int, <<"f">>),
        BinderText("λ", moo, char, BinderText("λ", foo, int, FooBarMoo))),
    BinderText("λ", foo, BinderText("Σ", <<"f">>, int, <<"f">>), FooBarMoo),
    BinderText("λ", bar, BinderText("Σ", <<"f">>, char, <<"f">>),
        BinderText("λ", foo, int, FooBarMoo)),
    Words(<<foo, BinderText("λ", bar, int, Words(<<bar, moo>>))>>),
    Words(<<<<"(">> \o BinderText("λ", foo, <<"□">>, bar) \o <<")">>,
            BinderText("λ", moo, <<"□">>, moo)>>) }

\* Most atoms of a juxtaposition
MaxAtoms == 4

Atoms == {foo, bar, <<"□">>}
Seps == {<<" ">>, <<" ", " ">>, <<"\n">>}

\* The juxtapositions of n atoms, sep between two
RECURSIVE Juxta(_, _)
Juxta(n, sep) ==
    IF n = 1 THEN Atoms
    ELSE {t \o sep \o a : t \in Juxta(n - 1, sep), a \in Atoms}

Juxtapositions == UNION {Juxta(n, sep) : n \in 2..MaxAtoms, sep \in Seps}

Group(t) == <<"(">> \o t \o <<")">>

\* Applications with groups in them
GroupItems == {
    Words(<<foo, bar, moo>>),
    Words(<<foo, Group(Words(<<bar, Group(Words(<<moo, foo>>))>>))>>),
    Words(<<foo, Group(Words(<<Group(Words(<<bar, moo>>)), foo>>))>>),
    Words(<<foo, Group(Words(<<bar, moo, foo>>))>>),
    Words(<<foo, Group(Words(<<bar, moo>>)), foo>>),
    Words(<<Group(Words(<<foo, bar>>)), moo>>),
    Words(<<Group(Words(<<foo, bar>>)), Group(Words(<<moo, foo>>))>>),
    Words(<<foo, Group(bar)>>),
    Words(<<foo, Group(Words(<<Group(BinderText("λ", bar, int, bar)), moo>>))>>),
    Words(<<foo, Group(BinderText("λ", bar, int, bar)), moo>>),
    Words(<<foo, Group(BinderText("λ", bar, int, bar))>>) }

\* A binder with atoms before it and after it, in a group or not
BinderHeads == {<<"λ">> \o bar \o <<" ", ":", " ">> \o int \o <<" ", ".", " ">>,
                <<"λ">> \o bar \o <<":">> \o int \o <<".">>,
                <<"Π">> \o bar \o <<" ", ":", " ">> \o BinderText("Σ", foo, int, foo)
                    \o <<" ", ".", " ">>}
BinderItems ==
    LET inner == {pre \o head \o body :
                     pre \in {<<>>, foo \o <<" ">>, Words(<<foo, moo>>) \o <<" ">>},
                     head \in BinderHeads,
                     body \in {bar, Words(<<bar, moo>>), Words(<<moo, bar, foo>>)}}
    IN  inner \cup {Group(t) : t \in inner}
              \cup {Words(<<Group(t), moo>>) : t \in inner}
              \cup {Words(<<foo, Group(t)>>) : t \in inner}

\* Characters that start no token
BadChars == {"A", "1", "α"}

\* Texts a character that starts no token is put into
BadBases == {
    foo,
    Words(<<foo, bar>>),
    BinderText("λ", foo, <<"□">>, foo),
    Words(<<Group(foo), bar>>),
    Words(<<foo, <<")">>>>),
    <<")">>,
    foo \o <<":">>,
    Words(<<<<"λ">> \o foo, bar>>) }

\* The text with character c put in after its first i characters
Insert(t, i, c) == SubSeq(t, 1, i) \o <<c>> \o SubSeq(t, i + 1, Len(t))

BadItems ==
    UNION {{Insert(t, i, c) : i \in 0..Len(t), c \in BadChars} : t \in BadBases}
        \cup {<<"A", "1">>, Words(<<foo, <<"A">>, <<"α">>, bar>>)}

\* The Strings handed to Core::decode
Corpus == TestItems \cup Juxtapositions \cup GroupItems \cup BinderItems \cup BadItems

---------------------------------------------------------------------------
(* The driving program: it builds expressions bottom-up with the public    *)
(* constructors, operands on a stack, and hands the finished expression to *)
(* Core::encode and the String to Core::decode, or to Exp::index; or it    *)
(* starts from a String, decodes it and encodes the expression.            *)

RECURSIVE Total(_)
Total(st) == IF Len(st) = 0 THEN 0 ELSE Size(st[1]) + Total(Tail(st))

\* One more leaf still fits an expression of MaxNodes nodes
Room == /\ Len(stack) < MaxStack
        /\ Total(stack) + 1 + Len(stack) <= MaxNodes

Top == stack[Len(stack)]
Below == stack[Len(stack) - 1]
Rest == SubSeq(stack, 1, Len(stack) - 2)

InitBuild ==
    /\ pc = "build"
    /\ stack = <<>>
    /\ text = <<>>
    /\ dec = None
    /\ enc = <<>>
    /\ call = None

InitText ==
    /\ pc = "text"
    /\ stack = <<>>
    /\ text \in Corpus
    /\ dec = None
    /\ enc = <<>>
    /\ call = None

Init == InitBuild \/ InitText

\* Exp::Var(Var::Sym(sym))
PushSym ==
    /\ pc = "build" /\ Room
    /\ \E sym \in Syms : stack' = Append(stack, ExpVar(VarSym(sym)))
    /\ UNCHANGED <<pc, text, dec, enc, call>>

\* Exp::Unv(Unv::new())
PushUnv ==
    /\ pc = "build" /\ Room
    /\ stack' = Append(stack, ExpUnv(UnvNew))
    /\ UNCHANGED <<pc, text, dec, enc, call>>

\* Exp::Unv(Unv { level }), of a level above 0
PushUnvLevel ==
    /\ pc = "build" /\ Room
    /\ \E level \in 1..MaxLevel : stack' = Append(stack, ExpUnv(Unv(level)))
    /\ UNCHANGED <<pc, text, dec, enc, call>>

\* Exp::App(App::new(fst, snd))
MkApp ==
    /\ pc = "build" /\ Len(stack) >= 2
    /\ stack' = Append(Rest, ExpApp(AppNew(Below, Top)))
    /\ UNCHANGED <<pc, text, dec, enc, call>>

\* A binder's constructor called on (sym, typ, exp): the binder replaces its
\* operands, or the operands are dropped and the error is kept.
MkBinder(tag, new) ==
    /\ pc = "build" /\ Len(stack) >= 2
    /\ IF new.ok
       THEN stack' = Append(Rest, ExpBinder(tag, new.val)) /\ call' = call
       ELSE stack' = Rest /\ call' = [op |-> tag, res |-> new]
    /\ UNCHANGED <<pc, text, dec, enc>>

\* Exp::Abs(Abs::new(sym, typ, exp)?)
MkAbs == \E sym \in Syms : MkBinder("Abs", AbsNew(sym, Below, Top))
\* Exp::Prd(Prd::new(sym, typ, exp)?)
MkPrd == \E sym \in Syms : MkBinder("Prd", PrdNew(sym, Below, Top))
\* Exp::Sum(Sum::new(sym, typ, exp)?)
MkSum == \E sym \in Syms : MkBinder("Sum", SumNew(sym, Below, Top))

\* Core::new().encode(&exp) on the finished expression
Encode ==
    /\ pc = "build" /\ Len(stack) = 1
    /\ enc' = encode(CoreNew, stack[1])
    /\ pc' = "encoded"
    /\ UNCHANGED <<stack, text, dec, call>>

\* Core::new().decode(&text) on the String encode returned
Decode ==
    /\ pc = "encoded"
    /\ text' = enc
    /\ dec' = decode(CoreNew, enc)
    /\ pc' = "decoded"
    /\ UNCHANGED <<stack, enc, call>>

\* exp.index(&sym, &idx) called on the finished expression
Index ==
    /\ pc = "build" /\ Len(stack) = 1
    /\ \E sym \in Syms, val \in 0..U64_MAX :
          LET idx == [val |-> val, sym |-> sym]
              r == index(stack[1], sym, idx)
          IN  /\ call' = [op |-> "index", exp |-> stack[1], sym |-> sym,
                          idx |-> idx, res |-> r.res]
              /\ stack' = <<r.exp>>
    /\ pc' = "indexed"
    /\ UNCHANGED <<text, dec, enc>>

\* exp.index(&sym, &idx) called once more, after it returned Ok
IndexAgain ==
    /\ pc = "indexed" /\ call.res.ok
    /\ LET r == index(stack[1], call.sym, call.idx)
       IN  /\ call' = [call EXCEPT !.exp = stack[1], !.res = r.res]
           /\ stack' = <<r.exp>>
    /\ pc' = "reindexed"
    /\ UNCHANGED <<text, dec, enc>>

\* idx.inc()
IncIdx ==
    /\ pc = "build" /\ stack = <<>>
    /\ \E sym \in Syms, val \in 0..U64_MAX :
          LET idx == [val |-> val, sym |-> sym]
          IN  call' = [op |-> "Idx::inc", self |-> idx, res |-> IdxInc(idx)]
    /\ pc' = "done"
    /\ UNCHANGED <<stack, text, dec, enc>>

\* unv.inc()
IncUnv ==
    /\ pc = "build" /\ stack = <<>>
    /\ \E level \in 0..U64_MAX :
          LET unv == [level |-> level]
          IN  call' = [op |-> "Unv::inc", self |-> unv, res |-> UnvInc(unv)]
    /\ pc' = "done"
    /\ UNCHANGED <<stack, text, dec, enc>>

\* The check of test::test_decode_encode: Core::new().decode(&val) ...
DecodeText ==
    /\ pc = "text"
    /\ dec' = decode(CoreNew, text)
    /\ pc' = "parsed"
    /\ UNCHANGED <<stack, text, enc, call>>

\* ... .map(|exp| Core::new().encode(&exp))
EncodeDecoded ==
    /\ pc = "parsed" /\ dec.ok
    /\ enc' = encode(CoreNew, dec.val)
    /\ pc' = "printed"
    /\ UNCHANGED <<stack, text, dec, call>>

Next ==
    \/ PushSym \/ PushUnv \/ MkApp \/ MkAbs \/ MkPrd \/ MkSum
    \/ Encode \/ Decode \/ Index \/ IncIdx \/ IncUnv
    \/ DecodeText \/ EncodeDecoded

Spec == Init /\ [][Next]_vars

\* The driving program with universes of every level up to MaxLevel in the
\* expressions it encodes
NextUnv ==
    \/ PushSym \/ PushUnv \/ PushUnvLevel \/ MkApp \/ MkAbs \/ MkPrd \/ MkSum
    \/ Encode \/ Decode \/ DecodeText

SpecUnv == Init /\ [][NextUnv]_vars

\* The driving program that calls Exp::index, and calls it once more
NextIndex ==
    \/ PushSym \/ PushUnv \/ MkApp \/ MkAbs \/ MkPrd \/ MkSum
    \/ Index \/ IndexAgain

SpecIndex == Init /\ [][NextIndex]_vars

---------------------------------------------------------------------------
(* Expressions and texts as the properties below write them down *)

TSym(name) == [tag |-> "Var", var |-> [tag |-> "Sym", sym |-> [val |-> name]]]
TIdx(n, name) ==
    [tag |-> "Var", var |-> [tag |-> "Idx", idx |-> [val |-> n, sym |-> [val |-> name]]]]
TApp(fst, snd) == [tag |-> "App", fst |-> fst, snd |-> snd]
TBinder(tag, name, typ, exp) ==
    [tag |-> tag, sym |-> [val |-> name], typ |-> typ, exp |-> exp]

IsOk(r) == r # None /\ r.ok

\* The text variable holds a String that decode was called on
Decoded == pc \in {"parsed", "decoded"}

\* Position of the ")" that closes the "(" at position i - 1, from position i
\* with depth groups open in between
RECURSIVE CloseFrom(_, _, _)
CloseFrom(t, i, depth) ==
    IF i > Len(t) THEN 0
    ELSE IF t[i] = "(" THEN CloseFrom(t, i + 1, depth + 1)
    ELSE IF t[i] = ")" THEN (IF depth = 0 THEN i ELSE CloseFrom(t, i + 1, depth - 1))
    ELSE CloseFrom(t, i + 1, depth)

\* The matching pairs of parentheses of a text
Pairs(t) == {<<i, CloseFrom(t, i + 1, 0)>> : i \in {k \in 1..Len(t) : t[k] = "("}}

\* The text without the characters at positions i < j
RemovePair(t, i, j) ==
    SubSeq(t, 1, i - 1) \o SubSeq(t, i + 1, j - 1) \o SubSeq(t, j + 1, Len(t))

\* No pair of parentheses of t can go: without it the text does not decode,
\* or decodes to another expression
MinimalParens(t) ==
    \A pr \in Pairs(t) :
        LET d == decode(CoreNew, RemovePair(t, pr[1], pr[2]))
        IN  ~d.ok \/ d # decode(CoreNew, t)

\* The characters of a token
TokText(tok) ==
    CASE tok.kind = "Ident" -> tok.name
      [] tok.kind = "LParen" -> <<"(">>
      [] tok.kind = "RParen" -> <<")">>
      [] tok.kind = "Dot" -> <<".">>
      [] tok.kind = "Colon" -> <<":">>
      [] tok.kind = "Lambda" -> <<"λ">>
      [] tok.kind = "Pi" -> <<"Π">>
      [] tok.kind = "Sigma" -> <<"Σ">>
      [] tok.kind = "Box" -> <<"□">>

\* The tokens of items p.. written with one space between two, and none after
\* "(" or a binder's prefix nor before ")"
RECURSIVE Spaced(_, _)
Spaced(items, p) ==
    IF p > Len(items) THEN <<>>
    ELSE LET tok == items[p].val[2]
             glue == \/ p = Len(items)
                     \/ tok.kind \in {"LParen", "Lambda", "Pi", "Sigma"}
                     \/ items[p + 1].val[2].kind = "RParen"
         IN  TokText(tok) \o (IF glue THEN <<>> ELSE <<" ">>) \o Spaced(items, p + 1)

\* A text the grammar accepts, in canonical form
IsCanonical(t) ==
    /\ decode(CoreNew, t).ok
    /\ t = Spaced(Lexer(t), 1)
    /\ MinimalParens(t)

---------------------------------------------------------------------------
(* Properties of the codec *)

\* The expression with every universe at level 0
RECURSIVE ZeroLevels(_)
ZeroLevels(e) ==
    CASE e.tag = "Var" -> e
      [] e.tag = "Unv" -> [e EXCEPT !.unv.level = 0]
      [] e.tag = "App" ->
            [e EXCEPT !.fst = ZeroLevels(e.fst), !.snd = ZeroLevels(e.snd)]
      [] OTHER -> [e EXCEPT !.typ = ZeroLevels(e.typ), !.exp = ZeroLevels(e.exp)]

\* C1 (as claimed): decoding the encoding of a constructor-built expression
\* succeeds and returns an expression structurally equal to it.
C1_StructuralRoundTrip == pc = "decoded" => dec = Ok(stack[1])

\* C2 (as claimed): encoding the decoding of an accepted text in canonical
\* form returns exactly the text.
C2_TextRoundTrip == (pc = "printed" /\ IsCanonical(text)) => enc = text

\* C7 (as claimed): the encoding of a constructor-built expression has no pair
\* of parentheses whose removal leaves a text that decodes to the same
\* expression.
C7_MinimalParens == pc = "encoded" => MinimalParens(enc)

\* C11: the encoding of a universe of any level is the glyph "□" and
\* decode("□") is the universe of level 0, so that decoding the encoding of a
\* universe yields level 0; and an expression encodes to the text of the
\* expression that differs from it only in having all its universes at level 0.
C11_LevelNotObservable ==
    /\ (pc \in {"encoded", "decoded"} /\ stack[1].tag = "Unv") => enc = <<"□">>
    /\ (pc = "decoded" /\ stack[1].tag = "Unv") =>
          dec = [ok |-> TRUE, val |-> [tag |-> "Unv", unv |-> [level |-> 0]]]
    /\ (Decoded /\ text = <<"□">>) =>
          dec = [ok |-> TRUE, val |-> [tag |-> "Unv", unv |-> [level |-> 0]]]
    /\ pc = "encoded" => enc = encode(CoreNew, ZeroLevels(stack[1]))

\* C11's witness: a universe above level 0 has been encoded and decoded
C11_Witness ==
    /\ pc = "decoded" /\ stack[1].tag = "Unv" /\ stack[1].unv.level > 0
    /\ dec.ok /\ dec.val.unv.level = 0

\* C11's second case: an application of two universes above level 0 is encoded
C11_WitnessTree ==
    /\ pc = "encoded" /\ stack[1].tag = "App"
    /\ stack[1].fst.tag = "Unv" /\ stack[1].fst.unv.level > 0
    /\ stack[1].snd.tag = "Unv" /\ stack[1].snd.unv.level > 0

\* The text is one group: it starts with "(" and ends with the ")" that
\* closes it
Wrapped(s) == Len(s) >= 2 /\ s[1] = "(" /\ CloseFrom(s, 2, 0) = Len(s)

\* In the text that the codec self writes for exp, a node at position pos of
\* its parent ("top" for the whole expression, "fst", "typ", "exp", and for the
\* snd of an application "mid" when that application is itself a fst and
\* "last" when it is not), every binder that is a fst is written as a group
\* and every binder at "top", "last", "typ" or "exp" is not.
RECURSIVE BinderParens(_, _, _)
BinderParens(self, exp, pos) ==
    CASE exp.tag = "App" ->
            /\ BinderParens(ltree_codec(self), exp.fst, "fst")
            /\ BinderParens(rtree_codec(self), exp.snd,
                            IF pos = "fst" THEN "mid" ELSE "last")
      [] exp.tag \in BinderTags ->
            /\ pos = "fst" => Wrapped(encode(self, exp))
            /\ pos \in {"top", "last", "typ", "exp"} =>
                  encode(self, exp)[1] = prefix(exp.tag)[1]
            /\ BinderParens(reset(self), exp.typ, "typ")
            /\ BinderParens(reset(self), exp.exp, "exp")
      [] OTHER -> TRUE

\* C13 (as claimed): in the encoding of an expression every binder that is
\* the fst of an application, at any depth, is wrapped in a pair of
\* parentheses of its own, and a binder that is the whole expression, the
\* last argument of a chain of applications or the type or the body of a
\* binder is written without parentheses.
C13_BinderParens == pc = "encoded" => BinderParens(CoreNew, stack[1], "top")

\* In the text that the codec self writes for exp, a node at position pos of
\* its parent ("top", "fst", "snd", "typ" or "exp"), an application is
\* written as a group if and only if it is a snd.
RECURSIVE AppParens(_, _, _)
AppParens(self, exp, pos) ==
    CASE exp.tag = "App" ->
            /\ Wrapped(encode(self, exp)) <=> pos = "snd"
            /\ AppParens(ltree_codec(self), exp.fst, "fst")
            /\ AppParens(rtree_codec(self), exp.snd, "snd")
      [] exp.tag \in BinderTags ->
            /\ AppParens(reset(self), exp.typ, "typ")
            /\ AppParens(reset(self), exp.exp, "exp")
      [] OTHER -> TRUE

\* C14 (as claimed): in the encoding of an expression an application is
\* wrapped in a pair of parentheses if and only if it is the snd of an
\* application: every application that is a snd is, at every depth, and an
\* application that is the whole expression, a fst or the type or the body of
\* a binder is not.
C14_AppParens == pc = "encoded" => AppParens(CoreNew, stack[1], "top")

---------------------------------------------------------------------------
(* Properties of indexing *)

\* sym occurs as a Var::Sym in e, outside the body of every binder of e whose
\* own symbol is sym
RECURSIVE HasFree(_, _)
HasFree(e, sym) ==
    CASE e.tag = "Var" -> e.var.tag = "Sym" /\ e.var.sym = sym
      [] e.tag = "App" -> HasFree(e.fst, sym) \/ HasFree(e.snd, sym)
      [] e.tag \in BinderTags ->
            HasFree(e.typ, sym) \/ (e.sym # sym /\ HasFree(e.exp, sym))
      [] OTHER -> FALSE

\* C3 (as claimed): after index(exp, sym, idx) returns Ok, no Var::Sym equal to
\* sym remains in exp, type annotations of nested binders included, except
\* inside the body of a nested binder whose own symbol equals sym.
C3_IndexBindsEveryFree ==
    (pc = "indexed" /\ call.res.ok) => ~HasFree(stack[1], call.sym)

\* C6 (as claimed): when index(exp, sym, idx) returns an overflow error, exp is
\* exactly as it was before the call.
C6_IndexAllOrNothing ==
    (pc = "indexed" /\ ~call.res.ok) => stack[1] = call.exp

\* after is before but for leaves Var::Sym(sym) that are a Var::Idx in after
RECURSIVE Frame(_, _, _)
Frame(before, after, sym) ==
    CASE before.tag = "Var" ->
            IF before.var.tag = "Sym" /\ before.var.sym = sym
            THEN after = before \/ (after.tag = "Var" /\ after.var.tag = "Idx")
            ELSE after = before
      [] before.tag = "App" ->
            /\ after.tag = "App"
            /\ Frame(before.fst, after.fst, sym)
            /\ Frame(before.snd, after.snd, sym)
      [] before.tag \in BinderTags ->
            /\ after.tag = before.tag /\ after.sym = before.sym
            /\ Frame(before.typ, after.typ, sym)
            /\ Frame(before.exp, after.exp, sym)
      [] OTHER -> after = before

\* C15: index(exp, sym, idx), whether it returns Ok or an error, leaves exp as
\* it was but for leaves Var::Sym(sym) turned into a Var::Idx: the shape, the
\* symbols of the binders, the universes, the Var::Sym of another name and
\* the Var::Idx are the same before and after.
C15_IndexFrame == pc = "indexed" => Frame(call.exp, stack[1], call.sym)

\* Every Var::Idx{val, sym} of e has at least val + 1 enclosing binders whose
\* body contains it, the (val + 1)-th nearest with symbol sym and none of the
\* val nearer ones with symbol sym; ctx lists the symbols of the binders whose
\* body contains e, nearest first.
RECURSIVE WellBound(_, _)
WellBound(e, ctx) ==
    CASE e.tag = "Var" ->
            e.var.tag = "Idx" =>
                LET val == e.var.idx.val
                IN  /\ Len(ctx) >= val + 1
                    /\ ctx[val + 1] = e.var.idx.sym
                    /\ \A k \in 1..val : ctx[k] # e.var.idx.sym
      [] e.tag = "App" -> WellBound(e.fst, ctx) /\ WellBound(e.snd, ctx)
      [] e.tag \in BinderTags ->
            WellBound(e.typ, ctx) /\ WellBound(e.exp, <<e.sym>> \o ctx)
      [] OTHER -> TRUE

\* "λfoo : int . foo (bar moo)"
LiteralText == BinderText("λ", foo, int, FooBarMoo)
LiteralExp ==
    TBinder("Abs", foo, TSym(int), TApp(TIdx(0, foo), TApp(TSym(bar), TSym(moo))))

\* C4: in every expression built through the constructors, and in every
\* expression decode returns, each Var::Idx{val, sym} lies in the bodies of at
\* least val + 1 binders, the (val + 1)-th nearest of them has symbol sym and
\* no nearer one has; and decode("λfoo : int . foo (bar moo)") is
\* Abs{foo, int, App(Idx{0, foo}, App(bar, moo))}.
C4_DeBruijnDistance ==
    /\ pc # "indexed" => \A i \in 1..Len(stack) : WellBound(stack[i], <<>>)
    /\ (Decoded /\ dec.ok) => WellBound(dec.val, <<>>)
    /\ (Decoded /\ text = LiteralText) => dec = Ok(LiteralExp)

\* Greatest val of a Var::Idx of e, -1 when it has none
RECURSIVE MaxIdx(_)
MaxIdx(e) ==
    CASE e.tag = "Var" -> IF e.var.tag = "Idx" THEN e.var.idx.val ELSE -1
      [] e.tag = "App" ->
            IF MaxIdx(e.fst) > MaxIdx(e.snd) THEN MaxIdx(e.fst) ELSE MaxIdx(e.snd)
      [] e.tag \in BinderTags ->
            IF MaxIdx(e.typ) > MaxIdx(e.exp) THEN MaxIdx(e.typ) ELSE MaxIdx(e.exp)
      [] OTHER -> -1

\* e has a Var::Sym of a name other than sym
RECURSIVE HasOtherSym(_, _)
HasOtherSym(e, sym) ==
    CASE e.tag = "Var" -> e.var.tag = "Sym" /\ e.var.sym # sym
      [] e.tag = "App" -> HasOtherSym(e.fst, sym) \/ HasOtherSym(e.snd, sym)
      [] e.tag \in BinderTags -> HasOtherSym(e.typ, sym) \/ HasOtherSym(e.exp, sym)
      [] OTHER -> FALSE

\* C15's witness: a call of index that failed after it had changed an
\* expression with an index, a symbol of another name and a universe in it
C15_Witness ==
    /\ pc = "indexed" /\ ~call.res.ok /\ stack[1] # call.exp
    /\ MaxIdx(call.exp) >= 0 /\ HasOtherSym(call.exp, call.sym)
    /\ call.exp.tag = "App" /\ IsBinder(call.exp.snd)
    /\ call.exp.snd.typ.tag = "Unv"

\* C4's witness: a decoded expression with an index that crosses two binders
C4_Witness == pc = "decoded" /\ dec.ok /\ MaxIdx(dec.val) = 2

\* e has a binder with symbol sym
RECURSIVE ContainsBinder(_, _)
ContainsBinder(e, sym) ==
    CASE e.tag = "App" -> ContainsBinder(e.fst, sym) \/ ContainsBinder(e.snd, sym)
      [] e.tag \in BinderTags ->
            e.sym = sym \/ ContainsBinder(e.typ, sym) \/ ContainsBinder(e.exp, sym)
      [] OTHER -> FALSE

\* after is before with the body of every binder of symbol sym unchanged and
\* every Var::Sym(sym) outside these binders turned into the index of the
\* binder under construction, depth binder bodies above
RECURSIVE Shadowing(_, _, _, _)
Shadowing(before, after, sym, depth) ==
    CASE before.tag = "Var" ->
            (before.var.tag = "Sym" /\ before.var.sym = sym) =>
                after = [tag |-> "Var",
                         var |-> [tag |-> "Idx", idx |-> [val |-> depth, sym |-> sym]]]
      [] before.tag = "App" ->
            /\ Shadowing(before.fst, after.fst, sym, depth)
            /\ Shadowing(before.snd, after.snd, sym, depth)
      [] before.tag \in BinderTags ->
            IF before.sym = sym THEN after.exp = before.exp
            ELSE /\ Shadowing(before.typ, after.typ, sym, depth)
                 /\ Shadowing(before.exp, after.exp, sym, depth + 1)
      [] OTHER -> TRUE

\* C5 (as claimed): a binder with symbol s constructed over a body that holds a
\* binder with the same symbol leaves that inner binder's body unchanged and
\* binds the occurrences of s in the body outside the inner binder to itself.
C5_Shadowing ==
    [][(/\ pc = "build" /\ Len(stack) >= 2 /\ Len(stack') = Len(stack) - 1
        /\ IsBinder(stack'[Len(stack')])
        /\ ContainsBinder(Top, stack'[Len(stack')].sym))
       => Shadowing(Top, stack'[Len(stack')].exp, stack'[Len(stack')].sym, 0)]_vars

\* C16: when index(exp, sym, idx) has returned Ok, a second call of
\* index(exp, sym, idx) on the expression it left returns Ok and leaves the
\* expression as it is; and a binder constructed with symbol s over a body
\* that is a binder with symbol s has that binder unchanged as its body.
C16_IndexIdempotent ==
    [][/\ pc' = "reindexed" => (call'.res.ok /\ stack'[1] = call'.exp)
       /\ (/\ pc = "build" /\ Len(stack) >= 2 /\ Len(stack') = Len(stack) - 1
           /\ IsBinder(stack'[Len(stack')]) /\ IsBinder(Top)
           /\ Top.sym = stack'[Len(stack')].sym)
          => stack'[Len(stack')].exp = Top]_vars

\* C16's witness: index has been called twice, and has bound a symbol the
\* first time, on a binder whose body is a binder with the same symbol and
\* an index 0 of its own
C16_Witness ==
    /\ pc = "reindexed" /\ call.res.ok
    /\ IsBinder(stack[1]) /\ IsBinder(stack[1].exp)
    /\ stack[1].exp.sym = stack[1].sym /\ call.sym # stack[1].sym
    /\ stack[1].exp.exp.tag = "App"
    /\ stack[1].exp.exp.fst = ExpVar(VarIdx(IdxNew(stack[1].sym)))
    /\ stack[1].exp.exp.snd =
          ExpVar(VarIdx([val |-> call.idx.val + 2, sym |-> call.sym]))

---------------------------------------------------------------------------
(* Properties of the parser *)

AtomKinds == {"Ident", "Box"}
TAtom(tok) ==
    IF tok.kind = "Ident" THEN TSym(tok.name)
    ELSE [tag |-> "Unv", unv |-> [level |-> 0]]

\* App(...App(App(a1, a2), a3)..., an)
RECURSIVE LeftNested(_)
LeftNested(atoms) ==
    IF Len(atoms) = 1 THEN atoms[1]
    ELSE TApp(LeftNested(SubSeq(atoms, 1, Len(atoms) - 1)), atoms[Len(atoms)])

\* C8: decoding a juxtaposition of n >= 2 atoms yields the left-nested
\* application of the atoms; decode("foo bar moo") is App(App(foo, bar), moo).
C8_LeftAssociative ==
    Decoded =>
        LET items == Lexer(text)
        IN  /\ (/\ Len(items) >= 2
                /\ \A i \in 1..Len(items) :
                      items[i].ok /\ items[i].val[2].kind \in AtomKinds)
               => dec = Ok(LeftNested([i \in 1..Len(items) |-> TAtom(items[i].val[2])]))
            /\ text = Words(<<foo, bar, moo>>)
               => dec = Ok(TApp(TApp(TSym(foo), TSym(bar)), TSym(moo)))

\* C8's witness: a juxtaposition of four atoms has been decoded
C8_Witness ==
    /\ pc = "parsed" /\ dec.ok
    /\ text = Words(<<foo, bar, <<"□">>, bar>>)

\* Position of the first item after the expression that holds item p, with
\* depth groups open since and dots binders waiting for their '.'
RECURSIVE ScopeEnd(_, _, _, _)
ScopeEnd(items, p, depth, dots) ==
    IF p > Len(items) THEN p
    ELSE LET kind == items[p].val[2].kind
         IN  CASE kind = "LParen" -> ScopeEnd(items, p + 1, depth + 1, dots)
               [] kind = "RParen" ->
                    IF depth = 0 THEN p ELSE ScopeEnd(items, p + 1, depth - 1, dots)
               [] kind \in {"Lambda", "Pi", "Sigma"} /\ depth = 0 ->
                    ScopeEnd(items, p + 1, depth, dots + 1)
               [] kind = "Dot" /\ depth = 0 ->
                    IF dots = 0 THEN p ELSE ScopeEnd(items, p + 1, depth, dots - 1)
               [] OTHER -> ScopeEnd(items, p + 1, depth, dots)

\* The items with items i..j-1 made a group
WithGroup(items, i, j) ==
    SubSeq(items, 1, i - 1) \o <<Ok(<<0, [kind |-> "LParen"], 0>>)>>
        \o SubSeq(items, i, j - 1) \o <<Ok(<<0, [kind |-> "RParen"], 0>>)>>
        \o SubSeq(items, j, Len(items))

\* "foo λbar:int.bar moo"
GreedyText == foo \o <<" ", "λ">> \o bar \o <<":">> \o int \o <<".">> \o bar \o <<" ">> \o moo

\* C9: a binder reaches to the end of the expression that encloses it: the
\* text decodes as it does with a group around the tokens from the binder's
\* prefix to the end of input, the ")" of the enclosing group or the '.' of
\* the enclosing type; decode("foo λbar:int.bar moo") is
\* App(foo, Abs{bar, int, App(Idx{0, bar}, moo)}).
C9_GreedyBinderBody ==
    /\ (Decoded /\ dec.ok) =>
          LET items == Lexer(text)
          IN  \A i \in 1..Len(items) :
                items[i].val[2].kind \in {"Lambda", "Pi", "Sigma"} =>
                    ExpParser_parse(WithGroup(items, i, ScopeEnd(items, i + 1, 0, 1))) = dec
    /\ (Decoded /\ text = GreedyText) =>
          dec = Ok(TApp(TSym(foo),
                        TBinder("Abs", bar, TSym(int), TApp(TIdx(0, bar), TSym(moo)))))

\* C9's witness: the binder of "foo λbar:int.bar moo" has taken moo
C9_Witness ==
    /\ pc = "parsed" /\ text = GreedyText /\ dec.ok
    /\ dec.val.snd.tag = "Abs" /\ dec.val.snd.exp.tag = "App"

---------------------------------------------------------------------------
(* Properties of the lexer *)

\* Character i of t is in an identifier: it is of [a-z], or of [0-9_] with
\* only [a-z0-9_] between it and an [a-z] before it
InIdent(t, i) ==
    \/ t[i] \in Lower
    \/ /\ t[i] \in Digit \cup {"_"}
       /\ \E k \in 1..(i - 1) :
             /\ t[k] \in Lower
             /\ \A j \in k..i : t[j] \in Lower \cup Digit \cup {"_"}

\* The positions of the characters of t outside the token alphabet
Offending(t) ==
    {i \in 1..Len(t) : t[i] \notin Blank \cup Puncts /\ ~InIdent(t, i)}

\* Offset in bytes of character i of t
RECURSIVE ByteOffset(_, _)
ByteOffset(t, i) == IF i = 1 THEN 0 ELSE ByteOffset(t, i - 1) + Utf8Len(t[i - 1])

\* The members of a set of numbers in increasing order
RECURSIVE Sorted(_)
Sorted(S) ==
    IF S = {} THEN <<>>
    ELSE LET lo == CHOOSE x \in S : \A y \in S : x <= y
         IN  <<lo>> \o Sorted(S \ {lo})

FirstOffending(t) == Sorted(Offending(t))[1]

\* The items of the text before its first offending character
ItemsBefore(t) == Lexer(SubSeq(t, 1, FirstOffending(t) - 1))

\* Some accepted text may start with these items
Viable(items) ==
    LET r == ExpParser_parse(items)
    IN  Len(items) = 0 \/ r.ok \/ r.err.tag = "EndOfStream"

\* decode fails on a text with a character outside the token alphabet; the
\* lexer's first error is its item after the tokens before the first such
\* character and is InvalidToken at the offset where that character starts,
\* and each of its errors is InvalidToken at the offset where such a
\* character starts
LexerRejects ==
    (Decoded /\ Offending(text) # {}) =>
        LET items == Lexer(text)
            n == Len(ItemsBefore(text))
        IN  /\ ~dec.ok
            /\ SubSeq(items, 1, n) = ItemsBefore(text)
            /\ \A k \in 1..n : items[k].ok
            /\ items[n + 1] =
                  [ok |-> FALSE,
                   err |-> [tag |-> "InvalidToken",
                            sloc |-> ByteOffset(text, FirstOffending(text))]]
            /\ \A k \in 1..Len(items) :
                  ~items[k].ok =>
                      \E i \in Offending(text) :
                          items[k].err = [tag |-> "InvalidToken",
                                          sloc |-> ByteOffset(text, i)]

\* C12 (as claimed): on a text with a character outside the token alphabet
\* decode returns an error, the lexer's item for the offending character is
\* InvalidToken at the offset where the character starts, and decode returns
\* that InvalidToken.
C12_InvalidTokenSurfaced ==
    /\ LexerRejects
    /\ (Decoded /\ Offending(text) # {}) =>
          dec = [ok |-> FALSE,
                 err |-> [tag |-> "InvalidToken",
                          sloc |-> ByteOffset(text, FirstOffending(text))]]

\* C12 (amended): on a text with a character outside the token alphabet
\* decode returns an error, the lexer's item for each offending character is
\* InvalidToken at the offset where the character starts, and decode returns
\* the InvalidToken of the first of them when the tokens before it can start
\* an accepted text, and otherwise the error of these tokens alone.
C12_LexerRejection ==
    /\ LexerRejects
    /\ (Decoded /\ Offending(text) # {}) =>
          IF Viable(ItemsBefore(text))
          THEN dec = [ok |-> FALSE,
                      err |-> [tag |-> "InvalidToken",
                               sloc |-> ByteOffset(text, FirstOffending(text))]]
          ELSE /\ dec = ExpParser_parse(ItemsBefore(text))
               /\ dec.err.tag = "UnexpectedToken"

\* C12's witness: decode has returned the InvalidToken of a character that
\* comes after a character of several bytes
C12_Witness ==
    /\ pc = "parsed" /\ Offending(text) # {}
    /\ ~dec.ok /\ dec.err.tag = "InvalidToken"
    /\ dec.err.sloc > FirstOffending(text) - 1

---------------------------------------------------------------------------
(* Properties of the increments *)

\* C10: Idx::inc and Unv::inc fail at the greatest value, with MaxLimitIdx and
\* MaxLimitUnv of that value, and below it return the value one higher,
\* Idx::inc with the same sym.
C10_CheckedInc ==
    /\ (pc = "done" /\ call.op = "Idx::inc") =>
          IF call.self.val = U64_MAX
          THEN call.res = [ok |-> FALSE,
                           err |-> [tag |-> "MaxLimitIdx", lim |-> call.self.val]]
          ELSE call.res = [ok |-> TRUE,
                           val |-> [val |-> call.self.val + 1, sym |-> call.self.sym]]
    /\ (pc = "done" /\ call.op = "Unv::inc") =>
          IF call.self.level = U64_MAX
          THEN call.res = [ok |-> FALSE,
                           err |-> [tag |-> "MaxLimitUnv", lim |-> call.self.level]]
          ELSE call.res = [ok |-> TRUE, val |-> [level |-> call.self.level + 1]]

\* C10's witness: the greatest index below the limit has been incremented
C10_Witness ==
    /\ pc = "done" /\ call.op = "Idx::inc"
    /\ call.self.val = U64_MAX - 1 /\ call.res.ok /\ call.res.val.val = U64_MAX

===========================================================================
